---------------------------- MODULE Spec2Model ----------------------------
(***************************************************************************)
(* A model of freestuffapi-rs: the typed response decoders of src/api.rs   *)
(* and the request facade of src/client.rs.                                *)
(*                                                                         *)
(* Two specifications are given.                                           *)
(*   DecodeSpec  applies the decoders of src/api.rs to bounded sets of     *)
(*               JSON values.                                              *)
(*   Spec        runs one Client: a call is issued, the transport answers  *)
(*               (execute().await), the body arrives (json().await) and    *)
(*               the call returns.                                         *)
(*                                                                         *)
(* Text that the code builds or takes apart (request paths, identifier     *)
(* keys) is a sequence of one-character strings; text that the code only   *)
(* compares or carries (tags, messages) is a string.                       *)
(***************************************************************************)
EXTENDS Integers, Sequences, FiniteSets, TLC

VARIABLES
    decFn,      \* DecodeSpec: the decoder applied last ("none" at start)
    decIn,      \* DecodeSpec: the JSON value it was applied to
    decOut,     \* DecodeSpec: what it returned
    client,     \* Spec: the Client built by Builder::build
    pc,         \* Spec: "idle", "execute", "body" or "returned"
    call,       \* Spec: the call in progress
    requests,   \* Spec: the HTTP requests executed during the call
    net,        \* Spec: what the transport delivered to the call
    result      \* Spec: the call's return value

decVars == <<decFn, decIn, decOut>>
clientVars == <<client, pc, call, requests, net, result>>
vars == <<decFn, decIn, decOut, client, pc, call, requests, net, result>>

(***************************************************************************)
(* Result and Option values.                                               *)
(***************************************************************************)
Ok(v) == [ok |-> TRUE, val |-> v]
Err(e) == [ok |-> FALSE, err |-> e]
None == [some |-> FALSE]
Some(v) == [some |-> TRUE, val |-> v]

(***************************************************************************)
(* JSON values as the decoders see them.                                   *)
(***************************************************************************)
JNull == [k |-> "null"]
JNum(n) == [k |-> "number", n |-> n]
JStr(s) == [k |-> "string", s |-> s]
JObj(m) == [k |-> "object", m |-> m]

\* The member values objects are built from.
Members == {JNull, JNum(499), JStr("u")}

\* Every JSON object whose keys are among `keys`.
Objects(keys) ==
    UNION {{JObj(m) : m \in [ks -> Members]} : ks \in SUBSET keys}

(***************************************************************************)
(* serde's derived decoders for the plain field types.                     *)
(***************************************************************************)
\* Option<f64> read from member `f` of object map m: a missing member and
\* null are None, a number is Some, anything else is an error.
OptionF64(m, f) ==
    IF f \notin DOMAIN m THEN Ok(None)
    ELSE IF m[f].k = "null" THEN Ok(None)
    ELSE IF m[f].k = "number" THEN Ok(Some(m[f].n))
    ELSE Err("invalid type")

\* String read from member `f` of object map m: required, not nullable.
RequiredString(m, f) ==
    IF f \notin DOMAIN m THEN Err("missing field")
    ELSE IF m[f].k = "string" THEN Ok(m[f].s)
    ELSE Err("invalid type")

\* struct Price { euro: Option<f64>, dollar: Option<f64> }, no
\* deny_unknown_fields: unknown members are skipped.
Price(j) ==
    IF j.k # "object" THEN Err("invalid type")
    ELSE LET e == OptionF64(j.m, "euro")
             d == OptionF64(j.m, "dollar")
         IN  IF e.ok /\ d.ok
             THEN Ok([euro |-> e.val, dollar |-> d.val])
             ELSE Err("invalid type")

ThumbnailFields == {"org", "blank", "full", "tags"}

\* struct Thumbnail { org, blank, full, tags: String }.
Thumbnail(j) ==
    IF j.k # "object" THEN Err("invalid type")
    ELSE IF \A f \in ThumbnailFields : RequiredString(j.m, f).ok
         THEN Ok([f \in ThumbnailFields |-> j.m[f].s])
         ELSE Err("missing field or invalid type")

\* #[serde(deny_unknown_fields)] struct Empty {}: an object without members.
Empty(j) ==
    IF j.k = "object" /\ DOMAIN j.m = {}
    THEN Ok("Empty")
    ELSE Err("unknown field or invalid type")

\* The unit variant Aux::Null of the untagged enum: JSON null only.
Null(j) == IF j.k = "null" THEN Ok("Null") ELSE Err("invalid type")

\* The target type T of object_empty_as_none, named by `ty`.
Target(ty, j) == IF ty = "Price" THEN Price(j) ELSE Thumbnail(j)

\* #[serde(untagged)] enum Aux<T> { T(T), Empty(Empty), Null }: the first
\* variant, in declared order, that decodes.
Aux(ty, j) ==
    IF Target(ty, j).ok THEN Ok([variant |-> "T", t |-> Target(ty, j).val])
    ELSE IF Empty(j).ok THEN Ok([variant |-> "Empty"])
    ELSE IF Null(j).ok THEN Ok([variant |-> "Null"])
    ELSE Err("data did not match any variant of untagged enum Aux")

\* fn object_empty_as_none<T>: Aux::T(t) => Some(t), Aux::Empty | Aux::Null
\* => None, and the error of the untagged enum otherwise.
object_empty_as_none(ty, j) ==
    LET aux == Aux(ty, j)
    IN  IF ~aux.ok THEN aux
        ELSE IF aux.val.variant = "T" THEN Ok(Some(aux.val.t))
        ELSE Ok(None)

(***************************************************************************)
(* The open enums: #[serde(field_identifier, rename_all = "lowercase")]    *)
(* with a last newtype variant that takes every other string.              *)
(***************************************************************************)
\* Variant name |-> the tag rename_all = "lowercase" gives it.
StoreTags ==
    [Steam |-> "steam", Epic |-> "epic", Humble |-> "humble", Gog |-> "gog",
     Origin |-> "origin", Uplay |-> "uplay", Twitch |-> "twitch",
     Itch |-> "itch", Discord |-> "discord", Apple |-> "apple",
     Google |-> "google", Switch |-> "switch", Ps |-> "ps", Xbox |-> "xbox"]

AnnouncementTypeTags ==
    [Free |-> "free", Weekend |-> "weekend", Discount |-> "discount",
     Ad |-> "ad"]

ProductKindTags ==
    [Game |-> "game", DLC |-> "dlc", Software |-> "software", Art |-> "art",
     OST |-> "ost", Book |-> "book"]

\* The unit variant of `tags` whose tag is s.
VariantOf(tags, s) == CHOOSE v \in DOMAIN tags : tags[v] = s

\* The same enum without its fallback variant: a string that is no tag is
\* an error, as for ServiceStatus.
ClosedEnum(tags, fallback, j) ==
    IF j.k # "string" THEN Err("invalid type")
    ELSE IF \E v \in DOMAIN tags : tags[v] = j.s
         THEN Ok([variant |-> VariantOf(tags, j.s)])
         ELSE Err("unknown variant")

\* A field_identifier enum read from JSON value j: a string equal to a tag
\* is that unit variant, every other string goes to the fallback variant
\* with the string as its content; a value that is no string is an error.
FieldIdentifier(tags, fallback, j) ==
    IF j.k # "string" THEN Err("invalid type")
    ELSE IF \E v \in DOMAIN tags : tags[v] = j.s
         THEN Ok([variant |-> VariantOf(tags, j.s)])
         ELSE Ok([variant |-> fallback, text |-> j.s])

Store(j) == FieldIdentifier(StoreTags, "Other", j)
AnnouncementType(j) == FieldIdentifier(AnnouncementTypeTags, "Unknown", j)
ProductKind(j) == FieldIdentifier(ProductKindTags, "Other", j)

(***************************************************************************)
(* struct GameFlags(u8).                                                   *)
(***************************************************************************)
U8Max == 255

\* The derived decoder of the newtype: a JSON integer that fits a u8.
GameFlags(j) ==
    IF j.k = "number" /\ j.n >= 0 /\ j.n <= U8Max
    THEN Ok(j.n)
    ELSE Err("invalid value")

inner(flags) == flags

\* self.0 >> (bit & 1) == 1, the grouping the source does not have.
bit_misgrouped(flags, b) == flags \div (2 ^ (b % 2)) = 1

\* self.0 >> bit & 1 == 1, which Rust groups as ((self.0 >> bit) & 1) == 1.
bit(flags, b) == (flags \div (2 ^ b)) % 2 = 1

trash(flags) == bit(flags, 0)
thirdparty(flags) == bit(flags, 1)

(***************************************************************************)
(* struct GameInfo.  A GameInfo document is given by the members the       *)
(* custom and enum decoders read; `plain` says whether the members read by *)
(* serde's derived decoders alone (urls, url, org_url, tags, description,  *)
(* rating, notice, until, localized) all decode.  A member that is not in  *)
(* the document is JAbsent.                                                *)
(***************************************************************************)
JAbsent == [k |-> "absent"]

\* A member with #[serde(deserialize_with = "object_empty_as_none")] and
\* no default: a missing member is an error.
OptionalObjectField(ty, j) ==
    IF j.k = "absent" THEN Err("missing field")
    ELSE object_empty_as_none(ty, j)

GameInfo(j) ==
    LET title == IF j.title.k = "string" THEN Ok(j.title.s)
                 ELSE Err("invalid type")
        org_price == OptionalObjectField("Price", j.org_price)
        price == OptionalObjectField("Price", j.price)
        thumbnail == OptionalObjectField("Thumbnail", j.thumbnail)
        kind == ProductKind(j.kind)
        store == Store(j.store)
        flags == GameFlags(j.flags)
        game_type == AnnouncementType(j.type)
    IN  IF /\ j.plain
           /\ title.ok /\ org_price.ok /\ price.ok /\ thumbnail.ok
           /\ kind.ok /\ store.ok /\ flags.ok /\ game_type.ok
        THEN Ok([title |-> title.val, org_price |-> org_price.val,
                 price |-> price.val, thumbnail |-> thumbnail.val,
                 kind |-> kind.val, store |-> store.val,
                 flags |-> flags.val, game_type |-> game_type.val])
        ELSE Err("invalid GameInfo")

(***************************************************************************)
(* The inputs of DecodeSpec.                                               *)
(***************************************************************************)
\* The JSON values tried for a Price member.
PriceJsons ==
    {JNull, JAbsent, JNum(499), JStr("u")} \cup Objects({"euro", "dollar", "x"})

\* The JSON values tried for a Thumbnail member.
ThumbnailJsons ==
    {JNull, JAbsent, JNum(499), JStr("u")} \cup Objects(ThumbnailFields \cup {"x"})

OptionalObjectFields == {"org_price", "price", "thumbnail"}

\* The target type of each GameInfo member decoded by object_empty_as_none.
FieldType(f) == IF f = "thumbnail" THEN "Thumbnail" ELSE "Price"

FieldJsons(f) == IF f = "thumbnail" THEN ThumbnailJsons ELSE PriceJsons

Range(f) == {f[x] : x \in DOMAIN f}

\* The strings tried for the open enums: every tag, and strings that are
\* no tag (other case, other text, the empty string).
TagStrings ==
    Range(StoreTags) \cup Range(AnnouncementTypeTags) \cup Range(ProductKindTags)
    \cup {"Steam", "STEAM", "DLC", "Free", "", "gamepass", " steam", "keep"}

EnumJsons == {JStr(s) : s \in TagStrings} \cup {JNull, JNum(1)}

OpenEnums == {"Store", "AnnouncementType", "ProductKind"}

OpenEnum(e, j) ==
    IF e = "Store" THEN Store(j)
    ELSE IF e = "AnnouncementType" THEN AnnouncementType(j)
    ELSE ProductKind(j)

\* The JSON numbers tried for GameFlags: every byte and its two neighbours.
FlagJsons == {JNum(n) : n \in -1 .. U8Max + 1} \cup {JNull}

\* A complete thumbnail object.
FullThumbnail == JObj([f \in ThumbnailFields |-> JStr("u")])

\* The GameInfo documents tried.
GameInfoJsons ==
    [title : {JStr("A")},
     org_price : {JNull, JObj(<<>>), JObj([euro |-> JNum(499)]), JAbsent},
     price : {JNull, JObj(<<>>), JObj([x |-> JStr("u")])},
     thumbnail : {JNull, JObj(<<>>), FullThumbnail, JObj([x |-> JStr("u")])},
     kind : {JStr("game"), JStr("DLC")},
     store : {JStr("steam"), JStr("gamepass"), JNum(1)},
     flags : {JNum(0), JNum(3), JNum(U8Max + 1)},
     type : {JStr("free"), JStr("keep")},
     plain : BOOLEAN]

Pending == [pending |-> TRUE]

DecIdle == decFn = "none" /\ decIn = JNull /\ decOut = Pending

(***************************************************************************)
(* src/client.rs.  Text the client builds.                                 *)
(***************************************************************************)
Digits == <<"0", "1", "2", "3", "4", "5", "6", "7", "8", "9">>

\* u64::to_string: the decimal digits, most significant first.
RECURSIVE to_string(_)
to_string(n) ==
    IF n < 10 THEN <<Digits[n + 1]>>
    ELSE Append(to_string(n \div 10), Digits[(n % 10) + 1])

\* .reduce(|acc, id| format!("{id}+{acc}")): the operands exchanged.
RECURSIVE reduce_exchanged(_)
reduce_exchanged(strs) ==
    IF Len(strs) = 0 THEN None
    ELSE IF Len(strs) = 1 THEN Some(strs[1])
    ELSE Some(strs[Len(strs)] \o <<"+">>
              \o reduce_exchanged(SubSeq(strs, 1, Len(strs) - 1)).val)

\* .reduce(|acc, id| format!("{acc}+{id}")) over the strings strs: None for
\* no string, else the strings in order with "+" between them.
RECURSIVE reduce(_)
reduce(strs) ==
    IF Len(strs) = 0 THEN None
    ELSE IF Len(strs) = 1 THEN Some(strs[1])
    ELSE Some(reduce(SubSeq(strs, 1, Len(strs) - 1)).val
              \o <<"+">> \o strs[Len(strs)])

PingPath == <<"/", "v", "1", "/", "p", "i", "n", "g">>

\* format!("/v1/games/{category}")
game_list_path(category) ==
    <<"/", "v", "1", "/", "g", "a", "m", "e", "s", "/">> \o category

\* format!("/v1/game/{ids}/info")
game_details_path(ids) ==
    <<"/", "v", "1", "/", "g", "a", "m", "e", "/">> \o ids
    \o <<"/", "i", "n", "f", "o">>

(***************************************************************************)
(* enum ClientError.  HTTP carries the reqwest::Error, given here by what  *)
(* raised it: "builder", "request" (the transport), "body" (the body was   *)
(* not received) or "decode" (the body is not the expected JSON).          *)
(***************************************************************************)
HTTP(cause) == [kind |-> "HTTP", cause |-> cause]
InvalidResponse == [kind |-> "InvalidResponse"]
API(message) == [kind |-> "API", message |-> message]
Ratelimited == [kind |-> "Ratelimited"]

TOO_MANY_REQUESTS == 429

\* StatusCode::is_success
is_success(status) == status \in 200 .. 299

\* send_request without the TOO_MANY_REQUESTS arm of its match.
send_request_two_arms(o) ==
    IF o.kind = "error" THEN Err(HTTP("request"))
    ELSE IF is_success(o.status) THEN Ok(o)
    ELSE Err(InvalidResponse)

\* send_request, from execute(request).await on: o is what the transport
\* gave, an error or a response with a status.
send_request(o) ==
    IF o.kind = "error" THEN Err(HTTP("request"))
    ELSE IF is_success(o.status) THEN Ok(o)
    ELSE IF o.status = TOO_MANY_REQUESTS THEN Err(Ratelimited)
    ELSE Err(InvalidResponse)

(***************************************************************************)
(* struct ApiResponse<Data> and its decoding by Response::json.            *)
(***************************************************************************)
JBool(b) == [k |-> "bool", b |-> b]
JArr(a) == [k |-> "array", a |-> a]

\* Option<String>: a missing member and null are None.
OptionString(j) ==
    IF j.k \in {"absent", "null"} THEN Ok(None)
    ELSE IF j.k = "string" THEN Ok(Some(j.s))
    ELSE Err("invalid type")

\* GameId = u64 (the upper end of u64 is beyond the numbers tried).
GameId(j) ==
    IF j.k = "number" /\ j.n >= 0 THEN Ok(j.n) ELSE Err("invalid value")

\* Vec<GameId>
VecGameId(j) ==
    IF j.k # "array" THEN Err("invalid type")
    ELSE IF \A i \in DOMAIN j.a : GameId(j.a[i]).ok
         THEN Ok([i \in DOMAIN j.a |-> GameId(j.a[i]).val])
         ELSE Err("invalid value")

\* HashMap<String, GameInfo>
MapGameInfo(j) ==
    IF j.k # "object" THEN Err("invalid type")
    ELSE IF \A key \in DOMAIN j.m : GameInfo(j.m[key]).ok
         THEN Ok([key \in DOMAIN j.m |-> GameInfo(j.m[key]).val])
         ELSE Err("invalid GameInfo")

\* The Data of the call: Vec<GameId> for game_list, the map otherwise.
Data(op, j) == IF op = "game_list" THEN VecGameId(j) ELSE MapGameInfo(j)

\* Response::json::<ApiResponse<Data>>() on body b: the reqwest::Error
\* when the body was not received or is not an ApiResponse<Data>.
json(op, b) ==
    IF b.kind = "aborted" THEN Err(HTTP("body"))
    ELSE IF b.kind = "malformed" THEN Err(HTTP("decode"))
    ELSE LET error == OptionString(b.error)
             message == OptionString(b.message)
             data == Data(op, b.data)
         IN  IF b.success.k = "bool" /\ error.ok /\ message.ok /\ data.ok
             THEN Ok([success |-> b.success.b, error |-> error.val,
                      message |-> message.val, data |-> data.val])
             ELSE Err(HTTP("decode"))

\* into_data with the success flag deciding instead of the message.
into_data_by_success(response) ==
    IF response.success THEN Ok(response.data)
    ELSE Err(IF response.message.some THEN response.message.val ELSE "")

\* ApiResponse::into_data: self.message.map(Err).unwrap_or(Ok(self.data))
into_data(response) ==
    IF response.message.some THEN Err(response.message.val)
    ELSE Ok(response.data)

\* .json().await.map_err(ClientError::HTTP)?.into_data()
\* .map_err(ClientError::API), the tail of game_list and game_details.
decode_body(op, b) ==
    LET response == json(op, b)
    IN  IF ~response.ok THEN response
        ELSE LET data == into_data(response.val)
             IN  IF data.ok THEN data ELSE Err(API(data.err))

\* The Client of Spec before any call; DecodeSpec leaves it there.
ClientIdle ==
    /\ pc = "idle"
    /\ call = [op |-> "none"]
    /\ requests = <<>>
    /\ net = [kind |-> "none"]
    /\ result = Pending

DecInit ==
    /\ decOut = Pending
    /\ \/ decFn \in OptionalObjectFields /\ decIn \in FieldJsons(decFn)
       \/ decFn \in OpenEnums /\ decIn \in EnumJsons
       \/ decFn = "GameFlags" /\ decIn \in FlagJsons
       \/ decFn = "GameInfo" /\ decIn \in GameInfoJsons
    /\ client = [api_key_valid |-> TRUE]
    /\ ClientIdle

\* A GameInfo member decoded by object_empty_as_none.
DeserializeOptionalObject ==
    /\ decOut = Pending
    /\ decFn \in OptionalObjectFields
    /\ decOut' = OptionalObjectField(FieldType(decFn), decIn)
    /\ UNCHANGED <<decFn, decIn, clientVars>>

\* A Store, AnnouncementType or ProductKind.
DeserializeOpenEnum ==
    /\ decOut = Pending
    /\ decFn \in OpenEnums
    /\ decOut' = OpenEnum(decFn, decIn)
    /\ UNCHANGED <<decFn, decIn, clientVars>>

\* A GameFlags, and what its accessors return.
DeserializeGameFlags ==
    /\ decOut = Pending
    /\ decFn = "GameFlags"
    /\ LET r == GameFlags(decIn)
       IN  decOut' = IF r.ok
                     THEN Ok([inner |-> inner(r.val), trash |-> trash(r.val),
                              thirdparty |-> thirdparty(r.val)])
                     ELSE r
    /\ UNCHANGED <<decFn, decIn, clientVars>>

\* A whole GameInfo.
DeserializeGameInfo ==
    /\ decOut = Pending
    /\ decFn = "GameInfo"
    /\ decOut' = GameInfo(decIn)
    /\ UNCHANGED <<decFn, decIn, clientVars>>

DecNext ==
    \/ DeserializeOptionalObject
    \/ DeserializeOpenEnum
    \/ DeserializeGameFlags
    \/ DeserializeGameInfo

DecodeSpec == DecInit /\ [][DecNext]_vars

(***************************************************************************)
(* The inputs of Spec.                                                     *)
(***************************************************************************)
MaxBatch == 2
MaxList == 2

\* Every sequence over S of length at most n.
SeqsUpTo(S, n) == UNION {[1 .. len -> S] : len \in 0 .. n}

GameIds == {0, 1234, 5678}

\* The batch of the documentation example of game_details.
ExampleBatch == <<1234, 5678, 1020, 2030>>

\* The identifier lists game_details is called with.
Batches == SeqsUpTo(GameIds, MaxBatch) \cup {ExampleBatch}

\* The categories game_list is called with: the three valid ones.
Categories ==
    {<<"a", "l", "l">>, <<"a", "p", "p", "r", "o", "v", "e", "d">>,
     <<"f", "r", "e", "e">>}

\* The statuses the service answers with: both ends of 2xx, their
\* neighbours, 429 and its neighbours, and some others.
Statuses == {100, 199, 200, 299, 300, 404, 428, 429, 430, 500, 503, 599}

\* A GameInfo document that decodes, with the given title and price.
InfoJson(title, price) ==
    [title |-> JStr(title), org_price |-> JNull, price |-> price,
     thumbnail |-> FullThumbnail, kind |-> JStr("game"),
     store |-> JStr("steam"), flags |-> JNum(0), type |-> JStr("free"),
     plain |-> TRUE]

\* The GameInfo documents the service sends: two that decode and one whose
\* thumbnail matches none of the three alternatives of Aux.
InfoJsons ==
    {InfoJson("A", JObj([euro |-> JNum(499)])), InfoJson("B", JNull),
     [InfoJson("C", JNull) EXCEPT !.thumbnail = JObj([x |-> JStr("u")])]}

\* The keys of the maps the service sends for a batch: the identifiers
\* asked for, and one that was not asked for.
KeysFor(games) == {to_string(games[i]) : i \in DOMAIN games} \cup {<<"x">>}

\* The data members the service sends for the call c.
DataJsons(c) ==
    IF c.op = "game_list"
    THEN {JArr(a) : a \in SeqsUpTo({JNum(0), JNum(1234), JNum(-1)}, MaxList)}
    ELSE UNION {{JObj(m) : m \in [ks -> InfoJsons]} :
                    ks \in SUBSET KeysFor(c.games)}

\* The bodies the service sends for the call c.
Bodies(c) ==
    {[kind |-> "aborted"], [kind |-> "malformed"]}
    \cup [kind : {"json"},
          success : {JBool(TRUE), JBool(FALSE), JAbsent},
          error : {JAbsent, JStr("e")},
          message : {JAbsent, JNull, JStr(""), JStr("x")},
          data : DataJsons(c) \cup {JAbsent}]

(***************************************************************************)
(* struct Client and its calls.  A call runs to its first await in one     *)
(* step; Execute is execute(request).await returning and ReadBody is       *)
(* json().await returning; Return hands the result to the caller.          *)
(***************************************************************************)
Init ==
    /\ DecIdle
    /\ client \in [api_key_valid : BOOLEAN]
    /\ ClientIdle

\* A client that sends the request again when it is rate limited.
RetryRatelimited(e) ==
    IF e.err = Ratelimited /\ Len(requests) < 3
    THEN [pc |-> "execute", result |-> Pending,
          requests |-> Append(requests, requests[1])]
    ELSE [pc |-> "returned", result |-> e, requests |-> requests]

\* The ? after send_request(..).await and the Err arm of a call's last
\* expression: the error e is returned to the caller and the call is over.
Propagate(e) == [pc |-> "returned", result |-> e, requests |-> requests]

\* send_request up to execute(request).await: building the request fails
\* (ClientError::HTTP) when the key is no header value; otherwise the
\* request for `endpoint` is executed.
SendRequest(endpoint) ==
    IF client.api_key_valid
    THEN /\ pc' = "execute"
         /\ requests' = Append(requests, endpoint)
         /\ result' = Pending
    ELSE /\ pc' = "returned"
         /\ requests' = requests
         /\ result' = Err(HTTP("builder"))

Ping ==
    /\ pc = "idle"
    /\ call' = [op |-> "ping"]
    /\ SendRequest(PingPath)
    /\ UNCHANGED <<client, net, decVars>>

GameList ==
    /\ pc = "idle"
    /\ \E category \in Categories :
        /\ call' = [op |-> "game_list", category |-> category]
        /\ SendRequest(game_list_path(category))
    /\ UNCHANGED <<client, net, decVars>>

\* game_details without its test for the empty batch: the identifiers are
\* joined and requested whatever their number.
game_details_start_unguarded(games) ==
    [done |-> FALSE,
     ids |-> IF Len(games) = 0 THEN Some(<<>>)
             ELSE reduce([i \in DOMAIN games |-> to_string(games[i])])]

\* game_details up to send_request: Ok(HashMap::new()) at once for no
\* identifier, else the reduced identifier strings.
game_details_start(games) ==
    IF Len(games) = 0 THEN [done |-> TRUE, result |-> Ok(<<>>)]
    ELSE [done |-> FALSE,
          ids |-> reduce([i \in DOMAIN games |-> to_string(games[i])])]

\* game_details(games), also as game_detail calls it.
StartGameDetails(games) ==
    LET start == game_details_start(games)
    IN  IF start.done
        THEN /\ pc' = "returned"
             /\ requests' = requests
             /\ result' = start.result
        ELSE SendRequest(game_details_path(start.ids.val))

GameDetails ==
    /\ pc = "idle"
    /\ \E games \in Batches :
        /\ call' = [op |-> "game_details", games |-> games]
        /\ StartGameDetails(games)
    /\ UNCHANGED <<client, net, decVars>>

\* game_detail(game) is game_details(&[game]) and then one of its values.
GameDetail ==
    /\ pc = "idle"
    /\ \E game \in GameIds :
        /\ call' = [op |-> "game_detail", games |-> <<game>>]
        /\ StartGameDetails(<<game>>)
    /\ UNCHANGED <<client, net, decVars>>

\* game_detail looking its identifier up in the map.
game_detail_by_key(c, details) ==
    IF ~details.ok THEN {details}
    ELSE IF to_string(c.games[1]) \in DOMAIN details.val
         THEN {Ok(details.val[to_string(c.games[1])])}
         ELSE {Err(InvalidResponse)}

\* .and_then(|map| map.into_values().next().ok_or(InvalidResponse)): the
\* results game_detail may give for what game_details returned.  The order
\* of a HashMap's values is not fixed, so any value may come first.
game_detail(c, details) ==
    IF ~details.ok THEN {details}
    ELSE IF DOMAIN details.val = {} THEN {Err(InvalidResponse)}
    ELSE {Ok(details.val[key]) : key \in DOMAIN details.val}

\* What the call c returns for the result r of its last expression.
Returns(c, r) == IF c.op = "game_detail" THEN game_detail(c, r) ELSE {r}

\* execute(request).await returns: the transport failed, or there is a
\* response with a status.  send_request sorts it out; ping is then over,
\* the other calls go on to read the body of a successful response.
Execute ==
    /\ pc = "execute"
    /\ \E o \in {[kind |-> "error"]}
                \cup {[kind |-> "response", status |-> st] : st \in Statuses} :
        LET sent == send_request(o)
        IN  /\ net' = o
            /\ IF ~sent.ok
               THEN \E r \in Returns(call, sent) :
                        /\ pc' = Propagate(r).pc
                        /\ result' = Propagate(r).result
                        /\ requests' = Propagate(r).requests
               ELSE IF call.op = "ping"
               THEN /\ pc' = "returned"
                    /\ result' = Ok(is_success(sent.val.status))
                    /\ requests' = requests
               ELSE /\ pc' = "body"
                    /\ result' = Pending
                    /\ requests' = requests
    /\ UNCHANGED <<client, call, decVars>>

\* json().await returns for game_list, game_details and game_detail.
ReadBody ==
    /\ pc = "body"
    /\ \E b \in Bodies(call) :
        /\ net' = [kind |-> "response", status |-> net.status, body |-> b]
        /\ \E r \in Returns(call, decode_body(call.op, b)) :
            IF r.ok
            THEN pc' = "returned" /\ result' = r /\ requests' = requests
            ELSE /\ pc' = Propagate(r).pc
                 /\ result' = Propagate(r).result
                 /\ requests' = Propagate(r).requests
    /\ UNCHANGED <<client, call, decVars>>

\* The caller has the result; the Client is ready for the next call.
Return ==
    /\ pc = "returned"
    /\ pc' = "idle"
    /\ call' = [op |-> "none"]
    /\ requests' = <<>>
    /\ net' = [kind |-> "none"]
    /\ result' = Pending
    /\ UNCHANGED <<client, decVars>>

Next ==
    \/ Ping
    \/ GameList
    \/ GameDetails
    \/ GameDetail
    \/ Execute
    \/ ReadBody
    \/ Return

Spec == Init /\ [][Next]_vars

Decoded(fns) == decFn \in fns /\ decOut # Pending

(***************************************************************************)
(* C2.  For the GameInfo members org_price, price and thumbnail: a value   *)
(* of null and a value of {} both decode to None, and an object with at    *)
(* least one member decodes to Some or fails to decode.                    *)
(***************************************************************************)
C2_EmptyObjectAndNullAreNone ==
    Decoded(OptionalObjectFields) =>
        /\ decIn = JNull => decOut = Ok(None)
        /\ decIn = JObj(<<>>) => decOut = Ok(None)
        /\ (decIn.k = "object" /\ DOMAIN decIn.m # {}) =>
               (~decOut.ok \/ decOut.val.some)

(***************************************************************************)
(* C5.  Decoding a string as Store, ProductKind or AnnouncementType never  *)
(* fails: a string that is one of the enum's lowercase tags gives that     *)
(* unit variant, and every other string S gives Other(S) / Unknown(S) with *)
(* S unchanged.                                                            *)
(***************************************************************************)
TagsOf(e) ==
    IF e = "Store" THEN StoreTags
    ELSE IF e = "AnnouncementType" THEN AnnouncementTypeTags
    ELSE ProductKindTags

FallbackOf(e) == IF e = "AnnouncementType" THEN "Unknown" ELSE "Other"

C5_OpenEnumFallback ==
    (Decoded(OpenEnums) /\ decIn.k = "string") =>
        /\ decOut.ok
        /\ \A v \in DOMAIN TagsOf(decFn) :
               TagsOf(decFn)[v] = decIn.s => decOut.val = [variant |-> v]
        /\ decIn.s \notin Range(TagsOf(decFn)) =>
               decOut.val = [variant |-> FallbackOf(decFn), text |-> decIn.s]

\* A string that differs from a tag only by case went to the fallback.
C5_Witness ==
    /\ Decoded({"Store"})
    /\ decIn = JStr("Steam")
    /\ decOut = Ok([variant |-> "Other", text |-> "Steam"])

(***************************************************************************)
(* C9.  Every byte v in 0..255 is a GameFlags; inner() is v, trash() is    *)
(* bit 0 of v and thirdparty() is bit 1 of v, whatever the other bits.     *)
(***************************************************************************)
C9_GameFlagsBits ==
    (Decoded({"GameFlags"}) /\ decIn.k = "number"
        /\ decIn.n \in 0 .. U8Max) =>
        /\ decOut.ok
        /\ decOut.val.inner = decIn.n
        /\ decOut.val.trash = (decIn.n % 2 = 1)
        /\ decOut.val.thirdparty = (decIn.n % 4 \in {2, 3})

\* A byte with bit 1 and reserved bits set, bit 0 clear.
C9_Witness ==
    /\ Decoded({"GameFlags"})
    /\ decIn = JNum(254)
    /\ decOut = Ok([inner |-> 254, trash |-> FALSE, thirdparty |-> TRUE])

(***************************************************************************)
(* Reading the state of a call.                                            *)
(***************************************************************************)
HasBody == net.kind = "response" /\ "body" \in DOMAIN net

\* The body arrived and is an ApiResponse of the call's Data.
EnvelopeDecoded == HasBody /\ json(call.op, net.body).ok

IsDigit(c) == \E d \in DOMAIN Digits : Digits[d] = c

\* The number a string of decimal digits without a needless leading zero
\* stands for, and -1 for every other string.
RECURSIVE ParseDecimal(_)
ParseDecimal(str) ==
    IF Len(str) = 0 \/ \E i \in DOMAIN str : ~IsDigit(str[i]) THEN -1
    ELSE IF Len(str) > 1 /\ str[1] = "0" THEN -1
    ELSE IF Len(str) = 1 THEN (CHOOSE d \in DOMAIN Digits : Digits[d] = str[1]) - 1
    ELSE 10 * ParseDecimal(SubSeq(str, 1, Len(str) - 1))
         + ParseDecimal(<<str[Len(str)]>>)

\* The parts of str between its "+" characters, in order.
RECURSIVE SplitPlus(_)
SplitPlus(str) ==
    IF \A i \in DOMAIN str : str[i] # "+" THEN <<str>>
    ELSE LET first == CHOOSE i \in DOMAIN str :
                          str[i] = "+" /\ \A k \in 1 .. i - 1 : str[k] # "+"
         IN  <<SubSeq(str, 1, first - 1)>>
             \o SplitPlus(SubSeq(str, first + 1, Len(str)))

GamePrefix == <<"/", "v", "1", "/", "g", "a", "m", "e", "/">>
InfoSuffix == <<"/", "i", "n", "f", "o">>

\* The identifiers a path /v1/game/<n>+<n>+...+<n>/info names, in order;
\* <<-1>> for a path of another form.
PathIds(path) ==
    IF /\ Len(path) > Len(GamePrefix) + Len(InfoSuffix)
       /\ SubSeq(path, 1, Len(GamePrefix)) = GamePrefix
       /\ SubSeq(path, Len(path) - Len(InfoSuffix) + 1, Len(path)) = InfoSuffix
    THEN LET parts == SplitPlus(SubSeq(path, Len(GamePrefix) + 1,
                                       Len(path) - Len(InfoSuffix)))
         IN  [i \in DOMAIN parts |-> ParseDecimal(parts[i])]
    ELSE <<-1>>

(***************************************************************************)
(* C1.  Whenever the envelope of game_list or game_details decodes: if its *)
(* message is present the call returns the API error with that message and *)
(* not the data, whatever success, error and data are; if its message is   *)
(* absent (or null) the call returns the parsed data.                      *)
(***************************************************************************)
C1_EnvelopePriority ==
    (pc = "returned" /\ call.op \in {"game_list", "game_details"}
        /\ EnvelopeDecoded) =>
        /\ net.body.message.k = "string" =>
               result = Err(API(net.body.message.s))
        /\ net.body.message.k \in {"absent", "null"} =>
               result = Ok(Data(call.op, net.body.data).val)

\* success is true, the data is a valid non-empty map and the message is
\* present: the call returned the API error.
C1_Witness ==
    /\ pc = "returned" /\ call.op = "game_details" /\ EnvelopeDecoded
    /\ net.body.success = JBool(TRUE)
    /\ DOMAIN net.body.data.m # {}
    /\ net.body.message = JStr("x")
    /\ result = Err(API("x"))

(***************************************************************************)
(* C3.  A 2xx response of game_list or game_details whose body arrived but *)
(* does not decode makes the call return ClientError::InvalidResponse.     *)
(***************************************************************************)
C3_DecodeFailureIsInvalidResponse ==
    (pc = "returned" /\ call.op \in {"game_list", "game_details"}
        /\ HasBody /\ net.body.kind # "aborted" /\ ~EnvelopeDecoded) =>
        result = Err(InvalidResponse)

(***************************************************************************)
(* C4.  For every request of ping, game_list, game_details and             *)
(* game_detail: a transport failure gives ClientError::HTTP, status 429    *)
(* gives Ratelimited, every other status outside 2xx gives                 *)
(* InvalidResponse, and only a 2xx response goes on to be decoded;         *)
(* Ratelimited comes from status 429 alone.                                *)
(***************************************************************************)
C4_StatusClassification ==
    /\ net.kind = "error" => pc = "returned" /\ result = Err(HTTP("request"))
    /\ net.kind = "response" =>
        /\ net.status = 429 => pc = "returned" /\ result = Err(Ratelimited)
        /\ (net.status \notin 200 .. 299 /\ net.status # 429) =>
               pc = "returned" /\ result = Err(InvalidResponse)
        /\ net.status \in 200 .. 299 =>
               IF call.op = "ping"
               THEN pc = "returned" /\ result = Ok(TRUE)
               ELSE pc = "body" \/ HasBody
        /\ (pc = "body" \/ HasBody) => net.status \in 200 .. 299
    /\ result = Err(Ratelimited) =>
           net.kind = "response" /\ net.status = 429

\* A call was answered with status 429 and returned Ratelimited.
C4_Witness ==
    /\ pc = "returned" /\ call.op = "game_list"
    /\ net = [kind |-> "response", status |-> 429]
    /\ result = Err(Ratelimited)

(***************************************************************************)
(* C6.  game_details with no identifier returns Ok of the empty map at     *)
(* once and executes no request, whether or not the client's key is        *)
(* usable and whatever the service would answer.                           *)
(***************************************************************************)
C6_EmptyBatchShortCircuit ==
    (call.op = "game_details" /\ Len(call.games) = 0) =>
        /\ pc = "returned"
        /\ result.ok /\ DOMAIN result.val = {}
        /\ requests = <<>>
        /\ net.kind = "none"

\* The empty batch returned the empty map on a client whose request could
\* not even be built.
C6_Witness ==
    /\ call.op = "game_details" /\ Len(call.games) = 0
    /\ ~client.api_key_valid
    /\ pc = "returned" /\ result = Ok(<<>>)

(***************************************************************************)
(* C7.  For a non-empty batch game_details requests exactly the path       *)
(* /v1/game/ + the decimal identifiers joined by "+" in input order        *)
(* (duplicates kept, any number of them) + /info; and when the response is *)
(* an envelope without message whose map has one entry per identifier      *)
(* asked for, keyed by the identifier in decimal, the call returns a map   *)
(* with exactly those keys.                                                *)
(***************************************************************************)
Asked == {call.games[i] : i \in DOMAIN call.games}

\* The body is an envelope without message whose map is keyed by exactly
\* the identifiers asked for.
CorrespondingResponse ==
    /\ EnvelopeDecoded
    /\ net.body.message.k \in {"absent", "null"}
    /\ {ParseDecimal(key) : key \in DOMAIN net.body.data.m} = Asked
    /\ Cardinality(DOMAIN net.body.data.m) = Cardinality(Asked)

RequestFailed ==
    \/ net.kind = "error"
    \/ net.kind = "response" /\ net.status \notin 200 .. 299
    \/ HasBody /\ ~decode_body(call.op, net.body).ok

C8_AtMostOneRequest ==
    /\ Len(requests) <= 1
    /\ RequestFailed =>
           pc = "returned" /\ ~result.ok /\ "val" \notin DOMAIN result

C8_NoRetry ==
    /\ []C8_AtMostOneRequest
    /\ [][requests # <<>> => requests' \in {requests, <<>>}]_vars

\* A rate-limited call returned with its one request.
C8_Witness ==
    /\ pc = "returned" /\ call.op = "game_details"
    /\ Len(requests) = 1
    /\ net.kind = "response" /\ net.status = 429
    /\ result = Err(Ratelimited)

(***************************************************************************)
(* C10.  game_detail(g) executes the request of game_details([g]).  It     *)
(* returns an error exactly when game_details([g]) returns one (the same   *)
(* error) or returns the empty map (then InvalidResponse); otherwise it    *)
(* returns one of the map's values, and the value of g's entry when that   *)
(* is the only entry.                                                      *)
(***************************************************************************)
\* What game_details returned inside the game_detail call that is over.
DetailsReturned ==
    IF ~client.api_key_valid THEN Err(HTTP("builder"))
    ELSE IF ~HasBody THEN send_request(net)
    ELSE decode_body("game_details", net.body)

C10_GameDetail ==
    (call.op = "game_detail" /\ pc = "returned") =>
        LET g == call.games[1]
            details == DetailsReturned
        IN  /\ requests = IF client.api_key_valid
                          THEN <<game_details_path(to_string(g))>>
                          ELSE <<>>
            /\ ~result.ok <=> (~details.ok \/ DOMAIN details.val = {})
            /\ ~details.ok => result = details
            /\ (details.ok /\ DOMAIN details.val = {}) =>
                   result = Err(InvalidResponse)
            /\ (details.ok /\ DOMAIN details.val # {}) =>
                   \E key \in DOMAIN details.val :
                       result = Ok(details.val[key])
            /\ (details.ok /\ DOMAIN details.val = {to_string(g)}) =>
                   result = Ok(details.val[to_string(g)])

\* The map had one entry, not keyed by g: its value was returned.
C10_Witness ==
    /\ call.op = "game_detail" /\ pc = "returned"
    /\ HasBody /\ EnvelopeDecoded
    /\ net.body.message = JAbsent
    /\ DOMAIN net.body.data.m = {<<"x">>}
    /\ result.ok /\ result.val.title = "A"

=============================================================================
